---- MODULE Spec2Model ----
(***************************************************************************)
(* Model of claude-context-reporter: the delivery transport of the React  *)
(* library (utils/reporter.ts), the capture orchestration hook            *)
(* (hooks/useContextCapture.ts), the screenshot hook and the console ring *)
(* buffer (utils/console-capture.ts).                                     *)
(*                                                                         *)
(* JavaScript runs each handler to completion between two awaits, so one  *)
(* action is the code from one suspension point to the next.  Time is in  *)
(* milliseconds, as Date.now() returns it.                                 *)
(*                                                                         *)
(* Reports are taken to be values JSON.stringify accepts.  Local faults   *)
(* (a throwing localStorage, extraction or onCapture callback) occur only *)
(* in SpecFault.                                                          *)
(***************************************************************************)
EXTENDS Integers, Sequences, FiniteSets, TLC

\* ---- bounds of the model ----
MaxReports == 2       \* reports assembled in one run of the delivery model
MaxHistory == 22      \* reports assembled in one run of the history model
MaxTicks == 2         \* Date.now() stops advancing after these ticks unless a timer is armed
MaxConsoleCalls == 52 \* entries pushed to the console buffer before it is emptied
MaxChecks == 1        \* isServerAvailable calls in one run
MaxWarnCalls == 1     \* of which entries of level warn
MaxStarts == 2        \* startConsoleCapture calls without a stopConsoleCapture in between
MaxRecentCalls == 2   \* entries pushed in one run of the model of getRecentConsoleEntries
MaxIds == 3                \* generateReportId calls in one run
MaxMessages == 4           \* extension messages in one run
StackDepth == 3       \* nested calls a console call may make before the stack runs out

\* ---- program constants ----
SERVER_CHECK_INTERVAL == 5000
REPORT_TIMEOUT == 1000
SCREENSHOT_TIMEOUT == 2000
CHECK_TIMEOUT == 1000
HISTORY_LIMIT == 20
MAX_BUFFER_SIZE == 50
MAX_AGE_MS == 60000
MAX_REPORTS == 500
PENDING_TIMEOUT == 2000
SLUG_LIMIT == 20
ATTRIBUTE_LIMIT == 200
TEXT_LIMIT == 150
INNER_HTML_LIMIT == 300
SIBLING_TEXT_LIMIT == 20
HOOK_CELL_LIMIT == 10
FALLBACK_ITEMS == 5

\* the clock advances in steps of half a cache interval
TickMs == SERVER_CHECK_INTERVAL \div 2
MaxTime == MaxTicks * TickMs

NULL == "null"
DEFAULT_SERVER_URL == "http://localhost:9847"
\* the server URLs a caller may be configured with
Urls == {DEFAULT_SERVER_URL, "http://localhost:9900"}
\* who calls checkServerAvailable: the captureContext calls and isServerAvailable
Callers == {"a", "b", "check"}
\* the captureContext calls that may be running at the same time
Captures == {"a", "b"}

VARIABLES
  now,                   \* Date.now()
  serverUp,              \* the endpoint answers OK when it answers
  fault,                 \* local fault injected by the environment
  cachedServerAvailable, \* reporter.ts module state
  probedUrl,             \* the serverUrl of the probe that cachedServerAvailable came from
  lastServerCheck,       \* reporter.ts module state
  localStorage,          \* localStorage['contextReports'], ids most recent first
  cap,                   \* the running captureContext calls
  chk,                   \* the running isServerAvailable call
  nextId,                \* next report id (ids are 1, 2, ... in creation order)
  lastReportMethod,      \* React state of useContextCapture
  clearedPending,        \* clearServerCache returned, no check started since
  lastRet,               \* probe time of the last returned, failed-probe report
  consoleBuffer,         \* console-capture.ts module state
  isIntercepting,        \* console-capture.ts module state
  inserted,              \* every entry pushed to consoleBuffer since it was last emptied
  consoleFns,            \* the functions bound to console.error and console.warn
  originalError,         \* console-capture.ts module state
  originalWarn,          \* console-capture.ts module state
  starts,                \* startConsoleCapture calls since the last stopConsoleCapture
  lastCall,              \* what the last console.error / console.warn call did
  recent,                \* the array getRecentConsoleEntries returned last
  win,                   \* the stores the page exposes on window
  appState,              \* what captureAppState returned last
  tree,                  \* the selected element: its fiber chain and its DOM ancestors
  path,                  \* the running extractComponentPath call
  element,               \* the element a snapshot is taken of
  snapshot,              \* what the snapshot extraction returned last
  issued,                \* the ids generateReportId has returned, oldest first
  held,                  \* the lastReportMethod each caller's handler closed over
  process,               \* the server process: "up", "closing" after SIGINT, "exited"
  pendingReports,        \* the server's map from report id to {report, filename}, as its entries
  timers,                \* the server's armed timers
  reportsDir,            \* the markdown files of the reports directory
  screenshotsDir,        \* the files of the screenshots directory
  answered,              \* the status each POST /report and POST /screenshot got
  mdWrites,              \* every write of a markdown file, in order
  stored,                \* the extension's storage.local[STORAGE_KEY], first element first
  messages,              \* the extension messages being handled
  sentMessages,          \* how many saveReport / deleteReport / clearAllReports messages were sent
  serverUrl              \* the reporter.serverUrl each caller passes

deliveryVars == <<now, serverUp, fault, cachedServerAvailable, probedUrl, lastServerCheck,
                  localStorage, cap, chk, nextId,
                  lastReportMethod, clearedPending, lastRet>>
consoleVars == <<consoleBuffer, isIntercepting, inserted, consoleFns,
                 originalError, originalWarn, starts, lastCall, recent>>
extractVars == <<win, appState, tree, path, element, snapshot>>
idVars == <<issued>>
callerVars == <<held>>
serverVars == <<process, pendingReports, timers, reportsDir, screenshotsDir,
                answered, mdWrites>>
storageVars == <<stored, messages, sentMessages>>
urlVars == <<serverUrl>>
peerVars == <<idVars, callerVars, serverVars, storageVars, urlVars>>
vars == <<deliveryVars, consoleVars, extractVars, peerVars>>

\* ---------------------------------------------------------------------
\* reporter.ts
\* ---------------------------------------------------------------------

\* a cache that reuses only positive results
CachePositiveOnly ==
  /\ cachedServerAvailable = "true"
  /\ now - lastServerCheck < SERVER_CHECK_INTERVAL

\* a cache that still trusts a result at the end of the interval
CacheFreshAtLimit ==
  /\ cachedServerAvailable # NULL
  /\ now - lastServerCheck <= SERVER_CHECK_INTERVAL

\* the server listens at DEFAULT_SERVER_URL; nothing listens at the other URL
Answers(url) == url = DEFAULT_SERVER_URL /\ serverUp

\* line 29: the cached result is used when it is recent
CacheFresh ==
  /\ cachedServerAvailable # NULL
  /\ now - lastServerCheck < SERVER_CHECK_INTERVAL

\* lines 33-50: what the awaited fetch of /health makes checkServerAvailable
\* return: response.ok, or false from the catch (network error, abort)
checkServerAvailable(outcome) ==
  IF outcome = "ok" THEN "true" ELSE "false"

\* sendToServer without its catch
sendToServerNoCatch(outcome) ==
  IF outcome = "ok" THEN "true" ELSE IF outcome = "status" THEN "false" ELSE "throw"

\* lines 62-77: what the awaited fetch makes sendToServer return:
\* response.ok, or false from the catch
sendToServer(outcome) ==
  IF outcome = "ok" THEN "true" ELSE "false"

Take(s, n) == SubSeq(s, 1, IF Len(s) < n THEN Len(s) ELSE n)

\* a history that appends
saveAppend(store, id) == Take(store \o <<id>>, HISTORY_LIMIT)

\* a history that is never trimmed
saveUncapped(store, id) == <<id>> \o store

\* reports.unshift(report); reports.slice(0, 20); a throw inside the try
\* leaves the stored list as it was
saveToLocalStorage(store, id) ==
  IF fault = "storage" THEN store
  ELSE Take(<<id>> \o store, HISTORY_LIMIT)

getStoredReports == localStorage

\* one captureContext call
IdleCapture ==
  [pc |-> "idle", id |-> 0, force |-> FALSE, t0 |-> 0, deadline |-> 0,
   log |-> "none", method |-> "none", success |-> FALSE, ret |-> "none",
   probed |-> FALSE, avail |-> "none", sent |-> "none", hit |-> "none",
   up |-> FALSE, aborted |-> FALSE, prevT |-> -1, logged |-> FALSE,
   shot |-> "none", tries |-> 0, read |-> "none", toast |-> "none",
   gets |-> 0, posts |-> 0]

\* one isServerAvailable call
IdleCheck == [pc |-> "idle", t0 |-> 0, deadline |-> 0, calls |-> 0]

\* the fetch of this call that is waiting for its response
AwaitsHealth(c) == c.pc \in {"health", "shealth"}
AwaitsPost(c) == c.pc \in {"post", "spost"}
InReportLog(c) == c.pc \in {"health", "post"}

\* an abort timer that never fires
TimerNever(c) == FALSE

\* setTimeout(() => controller.abort(), timeout) has run
TimerFired(c) == now >= c.deadline

\* a transport that does not trust a cached positive result
DecisionDistrust(force) ==
  IF force \/ CacheFresh THEN "console" ELSE "health"

\* lines 151-162 up to the first fetch: what logContextReport /
\* logContextScreenshot does next with the availability cache as it is now
Decision(force) ==
  IF force THEN "console"
  ELSE IF CacheFresh
       THEN (IF cachedServerAvailable = "true" THEN "post" ELSE "console")
       ELSE "health"

HitOf(force) ==
  IF force THEN "none"
  ELSE IF CacheFresh
       THEN (IF cachedServerAvailable = "true" THEN "hitTrue" ELSE "hitFalse")
       ELSE "miss"

\* checkServerAvailable is entered: the first check after a clear has started
NoteCheck(force) ==
  clearedPending' = IF force THEN clearedPending ELSE FALSE

\* a transport that sends the report a second time when the server refused it
ResolvedAfterRetry(c, method) ==
  IF c.sent = "failed" /\ c.posts < 2
  THEN [c EXCEPT !.pc = "post", !.posts = c.posts + 1, !.sent = "none",
                 !.deadline = now + REPORT_TIMEOUT]
  ELSE [c EXCEPT !.log = "resolved", !.method = method, !.success = TRUE,
                 !.logged = (method = "console"), !.deadline = 0,
                 !.pc = "shot", !.tries = c.tries + 1]

\* useContextCapture.ts lines 89-101: logContextReport resolved with `method`;
\* setLastReportMethod, setLastReport, onCapture, then captureScreenshot()
Resolved(c, method) ==
  LET r == [c EXCEPT !.log = "resolved", !.method = method, !.success = TRUE,
                     !.logged = (method = "console"), !.deadline = 0]
  IN IF fault = "callback"
     THEN [r EXCEPT !.pc = "done", !.ret = "null"]
     ELSE [r EXCEPT !.pc = "shot", !.tries = c.tries + 1]

\* useContextCapture.ts lines 116-121: the promise of logContextReport
\* rejected, the catch of captureContext returns null
Rejected(c) ==
  [c EXCEPT !.log = "rejected", !.pc = "done", !.ret = "null", !.deadline = 0]

\* the fields of a call that only logContextReport uses
Forget(c) ==
  [c EXCEPT !.t0 = 0, !.deadline = 0, !.probed = FALSE, !.avail = "none",
            !.sent = "none", !.hit = "none", !.up = FALSE, !.aborted = FALSE,
            !.prevT = -1, !.gets = 0, !.posts = 0]

\* ContextReporter.tsx line 79: setToastMethod(lastReportMethod || 'console')
\* with the lastReportMethod the running handleDescriptionSubmit holds
ToastMethod(mine) == IF mine = NULL THEN "console" ELSE mine

\* a screenshot step whose failure fails the capture
ShotOverFailing(p, c, how) ==
  [Forget(c) EXCEPT !.pc = "done", !.shot = how,
                    !.ret = IF how = "server" THEN "report" ELSE "null"]

\* useContextCapture.ts lines 101-115: the screenshot step is over (no data,
\* or logContextScreenshot settled, or something in it threw): return report
ShotOver(p, c, how) ==
  LET mine == held[p]
  IN [Forget(c) EXCEPT !.pc = "done", !.ret = "report", !.shot = how,
                       !.read = mine, !.toast = ToastMethod(mine)]

\* logContextReport returns {method, success: true}
ReturnReport(p, c, method) ==
  /\ cap' = [cap EXCEPT ![p] = Resolved(c, method)]
  /\ lastReportMethod' = method
  /\ lastRet' = IF c.probed /\ c.avail = "no" THEN c.t0 ELSE -1

\* the promise of logContextReport rejects
RejectReport(p, c) ==
  /\ cap' = [cap EXCEPT ![p] = Rejected(c)]
  /\ lastRet' = -1
  /\ UNCHANGED lastReportMethod

\* captureContext(element, description) up to its first suspension
StartCaptureUpTo(p, force, limit) ==
  /\ cap[p].pc \in {"idle", "done"}
  /\ nextId <= limit
  /\ now <= MaxTime
  /\ UNCHANGED <<now, serverUp, fault, cachedServerAvailable, probedUrl, lastServerCheck,
                 chk, consoleVars, extractVars, peerVars>>
  /\ IF fault = "extract"
     THEN \* extractElementInfo / captureAppState threw: catch, return null
          /\ cap' = [cap EXCEPT ![p] = [IdleCapture EXCEPT !.pc = "done", !.ret = "null"]]
          /\ UNCHANGED <<localStorage, nextId, lastReportMethod, clearedPending, lastRet>>
     ELSE LET c == [IdleCapture EXCEPT !.id = nextId, !.force = force,
                                       !.t0 = now, !.up = Answers(serverUrl[p]),
                                       !.hit = HitOf(force),
                                       !.prevT = IF force THEN -1 ELSE lastRet]
              d == Decision(force)
          IN /\ nextId' = nextId + 1
             /\ localStorage' = saveToLocalStorage(localStorage, nextId)
             /\ NoteCheck(force)
             /\ CASE d = "console" ->
                       ReturnReport(p, [c EXCEPT !.avail = IF force THEN "none" ELSE "no"], "console")
                  [] d = "post" ->
                       /\ cap' = [cap EXCEPT ![p] = [c EXCEPT !.pc = "post", !.avail = "yes",
                                                             !.posts = c.posts + 1,
                                                             !.deadline = now + REPORT_TIMEOUT]]
                       /\ UNCHANGED <<lastReportMethod, lastRet>>
                  [] d = "health" ->
                       /\ cap' = [cap EXCEPT ![p] = [c EXCEPT !.pc = "health", !.probed = TRUE,
                                                             !.gets = c.gets + 1,
                                                             !.deadline = now + REPORT_TIMEOUT]]
                       /\ UNCHANGED <<lastReportMethod, lastRet>>

StartCapture(p, force) == StartCaptureUpTo(p, force, MaxReports)

\* the code after `await checkServerAvailable(...)` whose fetch settled with
\* `outcome`: lines 42-49, then 154-165 (report) or 198-211 (screenshot)
HealthSettled(p, c, outcome) ==
  LET r == checkServerAvailable(outcome) IN
  /\ UNCHANGED <<now, serverUp, fault, localStorage, chk, nextId, clearedPending,
                 consoleVars, extractVars, peerVars>>
  /\ IF r = "throw"
     THEN /\ UNCHANGED <<cachedServerAvailable, probedUrl, lastServerCheck>>
          /\ IF c.pc = "health"
             THEN RejectReport(p, c)
             ELSE /\ cap' = [cap EXCEPT ![p] = ShotOver(p, c, "threw")]
                  /\ UNCHANGED <<lastReportMethod, lastRet>>
     ELSE /\ cachedServerAvailable' = r
          /\ probedUrl' = serverUrl[p]
          /\ lastServerCheck' = c.t0
          /\ IF c.pc = "health"
             THEN IF r = "true"
                  THEN /\ cap' = [cap EXCEPT ![p] = [c EXCEPT !.pc = "post", !.avail = "yes",
                                                             !.posts = c.posts + 1,
                                                             !.deadline = now + REPORT_TIMEOUT]]
                       /\ lastRet' = -1
                       /\ UNCHANGED lastReportMethod
                  ELSE ReturnReport(p, [c EXCEPT !.avail = "no"], "console")
             ELSE /\ lastRet' = -1
                  /\ UNCHANGED lastReportMethod
                  /\ IF r = "true"
                     THEN cap' = [cap EXCEPT ![p] = [c EXCEPT !.pc = "spost",
                                                            !.deadline = now + SCREENSHOT_TIMEOUT]]
                     ELSE cap' = [cap EXCEPT ![p] = ShotOver(p, c, "console")]

\* the code after `await sendToServer(...)` whose fetch settled with `outcome`:
\* lines 156-178 (report) or 200-211 (screenshot)
PostSettled(p, c, outcome) ==
  LET r == sendToServer(outcome) IN
  /\ UNCHANGED <<now, serverUp, fault, cachedServerAvailable, probedUrl, lastServerCheck,
                 localStorage, chk, nextId, clearedPending, consoleVars, extractVars, peerVars>>
  /\ IF c.pc = "post"
     THEN IF r = "throw"
          THEN RejectReport(p, c)
          ELSE ReturnReport(p, [c EXCEPT !.sent = IF r = "true" THEN "ok" ELSE "failed"],
                            IF r = "true" THEN "server" ELSE "console")
     ELSE /\ cap' = [cap EXCEPT ![p] =
                       ShotOver(p, c, IF r = "throw" THEN "threw"
                                   ELSE IF r = "true" THEN "server" ELSE "console")]
          /\ UNCHANGED <<lastReportMethod, lastRet>>

\* GET /health is answered: 200, another status, or a network error
HealthResponse(p, outcome) ==
  /\ AwaitsHealth(cap[p])
  /\ (outcome = "ok") = Answers(serverUrl[p])
  /\ HealthSettled(p, cap[p], outcome)

\* POST /report or POST /screenshot is answered
PostResponse(p, outcome) ==
  /\ AwaitsPost(cap[p])
  /\ (outcome = "ok") = Answers(serverUrl[p])
  /\ PostSettled(p, cap[p], outcome)

\* the abort timer of the pending fetch fires: fetch rejects
Abort(p) ==
  /\ AwaitsHealth(cap[p]) \/ AwaitsPost(cap[p])
  /\ TimerFired(cap[p])
  /\ LET c == [cap[p] EXCEPT !.up = FALSE, !.aborted = TRUE] IN
     IF AwaitsHealth(c)
     THEN HealthSettled(p, c, "abort")
     ELSE PostSettled(p, c, "abort")

\* useScreenshot.capture() settles: a data URL, or null from its catch;
\* with data, logContextScreenshot runs up to its first fetch
ShotDone(p, ok) ==
  LET c == Forget(cap[p])
      d == Decision(c.force)
  IN
  /\ cap[p].pc = "shot"
  /\ ok /\ d # "console" => now <= MaxTime
  /\ UNCHANGED <<now, serverUp, fault, cachedServerAvailable, probedUrl, lastServerCheck,
                 localStorage, chk, nextId, lastReportMethod, lastRet, consoleVars, extractVars, peerVars>>
  /\ IF ~ok
     THEN /\ cap' = [cap EXCEPT ![p] = ShotOver(p, c, "captureFailed")]
          /\ UNCHANGED clearedPending
     ELSE /\ NoteCheck(c.force)
          /\ CASE d = "console" ->
                    cap' = [cap EXCEPT ![p] = ShotOver(p, c, "console")]
               [] d = "post" ->
                    cap' = [cap EXCEPT ![p] = [c EXCEPT !.pc = "spost",
                                                      !.deadline = now + SCREENSHOT_TIMEOUT]]
               [] d = "health" ->
                    cap' = [cap EXCEPT ![p] = [c EXCEPT !.pc = "shealth", !.t0 = now,
                                                      !.deadline = now + SCREENSHOT_TIMEOUT]]

\* isServerAvailable(): checkServerAvailable up to its fetch
IsServerAvailable ==
  /\ chk.pc = "idle"
  /\ chk.calls < MaxChecks
  /\ now <= MaxTime
  /\ clearedPending' = FALSE
  /\ chk' = IF CacheFresh THEN [chk EXCEPT !.calls = chk.calls + 1]
            ELSE [pc |-> "health", t0 |-> now, deadline |-> now + CHECK_TIMEOUT,
                  calls |-> chk.calls + 1]
  /\ UNCHANGED <<now, serverUp, fault, cachedServerAvailable, probedUrl, lastServerCheck,
                 localStorage, cap, nextId, lastReportMethod, lastRet, consoleVars, extractVars, peerVars>>

\* the fetch of isServerAvailable settles
CheckSettled(outcome) ==
  LET r == checkServerAvailable(outcome) IN
  /\ IF r = "throw"
     THEN UNCHANGED <<cachedServerAvailable, probedUrl, lastServerCheck>>
     ELSE /\ cachedServerAvailable' = r
          /\ probedUrl' = serverUrl["check"]
          /\ lastServerCheck' = chk.t0
  /\ chk' = [IdleCheck EXCEPT !.calls = chk.calls]
  /\ lastRet' = -1
  /\ UNCHANGED <<now, serverUp, fault, localStorage, cap, nextId,
                 lastReportMethod, clearedPending, consoleVars, extractVars, peerVars>>

CheckResponse(outcome) ==
  /\ chk.pc = "health"
  /\ (outcome = "ok") = Answers(serverUrl["check"])
  /\ CheckSettled(outcome)

CheckAbort ==
  /\ chk.pc = "health"
  /\ TimerFired(chk)
  /\ CheckSettled("abort")

\* clearServerCache()
clearServerCache ==
  /\ cachedServerAvailable' = NULL
  /\ probedUrl' = NULL
  /\ lastServerCheck' = 0
  /\ clearedPending' = TRUE
  /\ lastRet' = -1
  /\ UNCHANGED <<now, serverUp, fault, localStorage, cap, chk,
                 nextId, lastReportMethod, consoleVars, extractVars, peerVars>>

\* ---------------------------------------------------------------------
\* environment
\* ---------------------------------------------------------------------

\* the local server is started or stopped
ServerToggle ==
  /\ serverUp' = ~serverUp
  /\ cap' = IF serverUp
            THEN [p \in Captures |->
                    IF InReportLog(cap[p]) THEN [cap[p] EXCEPT !.up = FALSE] ELSE cap[p]]
            ELSE cap
  /\ UNCHANGED <<now, fault, cachedServerAvailable, probedUrl, lastServerCheck, localStorage,
                 chk, nextId, lastReportMethod, clearedPending, lastRet, consoleVars, extractVars, peerVars>>

\* an abort timer is still running
TimerArmed ==
  \/ \E p \in Captures : (AwaitsHealth(cap[p]) \/ AwaitsPost(cap[p])) /\ now < cap[p].deadline
  \/ chk.pc = "health" /\ now < chk.deadline

\* time passes
Tick ==
  /\ now < MaxTime \/ TimerArmed
  /\ now' = now + TickMs
  /\ UNCHANGED <<serverUp, fault, cachedServerAvailable, probedUrl, lastServerCheck, localStorage,
                 cap, chk, nextId, lastReportMethod, clearedPending, lastRet, consoleVars, extractVars, peerVars>>

Faults == {"none", "storage", "extract", "callback"}

\* a local fault appears or goes away: localStorage throws (quota, disabled
\* storage), extraction or state capture throws, the onCapture callback throws
SetFault(f) ==
  /\ f # fault
  /\ fault' = f
  /\ UNCHANGED <<now, serverUp, cachedServerAvailable, probedUrl, lastServerCheck, localStorage,
                 cap, chk, nextId, lastReportMethod, clearedPending, lastRet, consoleVars, extractVars, peerVars>>

\* ---------------------------------------------------------------------
\* console-capture.ts
\* ---------------------------------------------------------------------

Levels == {"error", "warn"}

\* the functions console.error and console.warn are bound to at page load
Native == [error |-> "nativeError", warn |-> "nativeWarn"]

\* lines 23-31: the two closures startConsoleCapture installs
Wrapper == [error |-> "wrapError", warn |-> "wrapWarn"]

\* a buffer that drops its newest entries
TrimNewest(buf) ==
  IF Len(buf) > MAX_BUFFER_SIZE THEN SubSeq(buf, 1, MAX_BUFFER_SIZE) ELSE buf

\* lines 82-84: while (consoleBuffer.length > MAX_BUFFER_SIZE) consoleBuffer.shift()
RECURSIVE Trim(_)
Trim(buf) ==
  IF Len(buf) > MAX_BUFFER_SIZE THEN Trim(Tail(buf)) ELSE buf

\* the entries of level warn pushed so far
WarnCount == Cardinality({i \in 1..Len(inserted) : inserted[i].level = "warn"})

\* lines 75-84 of addToBuffer(level, args) for a message that is not the
\* library's own: push, then trim.  The n-th pushed entry stands for the
\* n-th message.
addToBuffer(buf, level, n) ==
  Trim(Append(buf, [level |-> level, n |-> n, timestamp |-> now]))

\* a call of the function f: the levels addToBuffer is called with, how often
\* the function of the page is reached, and whether the call stack ran out
RECURSIVE Run(_, _)
Run(f, fuel) ==
  IF fuel = 0 THEN [pushes |-> <<>>, original |-> 0, overflow |-> TRUE]
  ELSE IF f \in {Native.error, Native.warn}
  THEN [pushes |-> <<>>, original |-> 1, overflow |-> FALSE]
  ELSE LET level == IF f = Wrapper.error THEN "error" ELSE "warn"
           saved == IF level = "error" THEN originalError ELSE originalWarn
           r == IF saved = NULL
                THEN [pushes |-> <<>>, original |-> 0, overflow |-> FALSE]
                ELSE Run(saved, fuel - 1)
       IN [pushes |-> <<level>> \o r.pushes, original |-> r.original,
           overflow |-> r.overflow]

\* the buffer after addToBuffer ran for each of `pushes`, n entries pushed before
RECURSIVE PushAll(_, _, _)
PushAll(buf, pushes, n) ==
  IF pushes = <<>> THEN buf
  ELSE PushAll(addToBuffer(buf, Head(pushes), n + 1), Tail(pushes), n + 1)

\* every entry pushed, untrimmed
RECURSIVE InsertAll(_, _)
InsertAll(ins, pushes) ==
  IF pushes = <<>> THEN ins
  ELSE InsertAll(Append(ins, [level |-> Head(pushes), n |-> Len(ins) + 1,
                              timestamp |-> now]), Tail(pushes))

\* a start that always wraps
NeverIntercepting == FALSE

\* line 18 / line 40: the flag both functions test first
AlreadyIntercepting == isIntercepting

\* a stop that leaves the channel as it is
RestoreNothing(saved, current) == current

\* lines 42-47: if (originalError) console.error = originalError
Restore(saved, current) == IF saved # NULL THEN saved ELSE current

\* startConsoleCapture()
startConsoleCapture ==
  /\ starts < MaxStarts
  /\ starts' = starts + 1
  /\ IF AlreadyIntercepting
     THEN UNCHANGED <<consoleFns, originalError, originalWarn, isIntercepting>>
     ELSE /\ originalError' = consoleFns.error
          /\ originalWarn' = consoleFns.warn
          /\ consoleFns' = Wrapper
          /\ isIntercepting' = TRUE
  /\ UNCHANGED <<consoleBuffer, inserted, lastCall, recent, deliveryVars, extractVars, peerVars>>

\* stopConsoleCapture()
stopConsoleCapture ==
  /\ starts' = 0
  /\ IF ~isIntercepting
     THEN UNCHANGED <<consoleFns, isIntercepting>>
     ELSE /\ consoleFns' = [error |-> Restore(originalError, consoleFns.error),
                            warn |-> Restore(originalWarn, consoleFns.warn)]
          /\ isIntercepting' = FALSE
  /\ UNCHANGED <<consoleBuffer, inserted, originalError, originalWarn,
                 lastCall, recent, deliveryVars, extractVars, peerVars>>

\* the page calls console.error(...) or console.warn(...) with a message that
\* contains '[ContextReporter]' (self) or not; at most `limit` entries are
\* pushed in one run
ConsoleCallUpTo(level, self, limit) ==
  LET r == Run(consoleFns[level], StackDepth)
      pushes == IF self THEN <<>> ELSE r.pushes
  IN /\ Len(inserted) + Len(pushes) <= limit
     /\ pushes # <<>> /\ level = "warn" => WarnCount < MaxWarnCalls
     /\ consoleBuffer' = PushAll(consoleBuffer, pushes, Len(inserted))
     /\ inserted' = InsertAll(inserted, pushes)
     /\ lastCall' = [level |-> level, self |-> self, wrapped |-> isIntercepting,
                     starts |-> starts, appended |-> Len(pushes),
                     original |-> r.original, overflow |-> r.overflow]
     /\ UNCHANGED <<isIntercepting, consoleFns, originalError, originalWarn,
                    starts, recent, deliveryVars, extractVars, peerVars>>

ConsoleCall(level, self) == ConsoleCallUpTo(level, self, MaxConsoleCalls)

\* clearConsoleBuffer()
clearConsoleBuffer ==
  /\ consoleBuffer' = <<>>
  /\ inserted' = <<>>
  /\ UNCHANGED <<isIntercepting, consoleFns, originalError, originalWarn,
                 starts, lastCall, recent, deliveryVars, extractVars, peerVars>>

\* the maxAge arguments of getRecentConsoleEntries
MaxAges == {TickMs, 2 * TickMs, MAX_AGE_MS}

\* a result that hands out the buffered objects themselves
SameObject(entry) == [alias |-> entry.n, value |-> entry]

\* line 96: ({ ...entry }), a new object with the three fields of the entry
CopyOf(entry) == [alias |-> 0, value |-> entry]

\* getRecentConsoleEntries(maxAge): filter, then map to copies
getRecentConsoleEntries(maxAge) ==
  LET cutoff == now - maxAge
      Newer(entry) == entry.timestamp > cutoff
      kept == SelectSeq(consoleBuffer, Newer)
  IN [i \in 1..Len(kept) |-> CopyOf(kept[i])]

\* a caller asks for the recent entries
GetRecent(maxAge) ==
  /\ recent' = getRecentConsoleEntries(maxAge)
  /\ UNCHANGED <<consoleBuffer, isIntercepting, inserted, consoleFns, originalError,
                 originalWarn, starts, lastCall, deliveryVars, extractVars, peerVars>>

\* the caller assigns to a field of the i-th entry it was given; an object
\* shared with the buffer changes there too
MutateReturned(i) ==
  /\ i \in 1..Len(recent)
  /\ recent[i].value.level # "edited"
  /\ recent' = [recent EXCEPT ![i].value.level = "edited"]
  /\ consoleBuffer' =
       [j \in 1..Len(consoleBuffer) |->
          IF consoleBuffer[j].n = recent[i].alias
          THEN [consoleBuffer[j] EXCEPT !.level = "edited"]
          ELSE consoleBuffer[j]]
  /\ UNCHANGED <<isIntercepting, inserted, consoleFns, originalError,
                 originalWarn, starts, lastCall, deliveryVars, extractVars, peerVars>>

\* ---------------------------------------------------------------------
\* state-adapters: index.ts, zustand.ts, redux.ts, jotai.ts
\* ---------------------------------------------------------------------

\* JavaScript values: t is the type, s the text of a string, items the
\* entries of an object (key k, value v) or of an array (k is "")
JUndefined == [t |-> "undefined", s |-> "", items |-> <<>>]
JNull == [t |-> "null", s |-> "", items |-> <<>>]
JFalse == [t |-> "false", s |-> "", items |-> <<>>]
JNumber == [t |-> "number", s |-> "", items |-> <<>>]
JString(text) == [t |-> "string", s |-> text, items |-> <<>>]
JArray(items) == [t |-> "array", s |-> "", items |-> items]
JObject(items) == [t |-> "object", s |-> "", items |-> items]
Item(v) == [k |-> "", v |-> v]
Entry(k, v) == [k |-> k, v |-> v]

\* the values a store may hold, by nesting depth
Leaves == {JNull, JFalse, JNumber, JString(""), JString("s")}
SmallObjects(V) ==
  {JObject(<<>>)} \cup {JObject(<<Entry(k, v)>>) : k \in {"user", "persist"}, v \in V}
    \cup {JObject(<<Entry("user", v), Entry("persist", JString("s"))>>) : v \in V}
SmallArrays(V) == {JArray(<<>>)} \cup {JArray(<<Item(v)>>) : v \in V}
Wrapped(V) ==
  {JObject(<<Entry("user", v)>>) : v \in V}
    \cup {JObject(<<Entry("user", v), Entry("persist", JString("s"))>>) : v \in V}
    \cup {JObject(<<Entry("_hasHydrated", JNumber), Entry("user", v)>>) : v \in V}
Depth1 == Leaves \cup SmallObjects(Leaves) \cup SmallArrays(Leaves)
Depth2 == Wrapped(Depth1) \cup SmallArrays(Depth1)
\* a list of records, each with the key "user"
Listed ==
  {JObject(<<Entry("list", JArray(<<Item(JObject(<<Entry("user", v)>>))>>))>>) :
     v \in {JNumber, JString("s")}}
\* the states a store may return
States == Wrapped(Depth2) \cup {JObject(<<>>)} \cup Listed
\* the state of a store that is not the one under study
PlainState == JObject(<<Entry("user", JString("s"))>>)

\* line 7: the adapters, in the order captureAppState asks them
adapters == <<"zustand", "redux", "jotai">>
AdapterNames == {adapters[i] : i \in 1..Len(adapters)}

\* lines 55-61
NOISE_KEYS == {"persist", "listeners", "_hasHydrated", "_persist", "rehydrated"}

\* line 98: key.startsWith('$$') || key.startsWith('_'), for the keys above
IsInternalKey(key) == key \in {"_hasHydrated", "_persist"}

\* a test that lets empty values through
isPresentValue(value) == value.t \notin {"null", "undefined"}

\* isMeaningfulValue(value), lines 66-73
isMeaningfulValue(value) ==
  /\ value.t \notin {"null", "undefined", "false"}
  /\ ~(value.t = "string" /\ value.s = "")
  /\ ~(value.t \in {"array", "object"} /\ Len(value.items) = 0)

\* cleanState(state), lines 78-111
RECURSIVE cleanState(_)
cleanState(state) ==
  IF state.t \in {"null", "undefined"} THEN JUndefined
  ELSE IF state.t = "array"
  THEN LET mapped == [i \in 1..Len(state.items) |-> Item(cleanState(state.items[i].v))]
           Keep(item) == isMeaningfulValue(item.v)
           cleaned == SelectSeq(mapped, Keep)
       IN IF Len(cleaned) > 0 THEN JArray(cleaned) ELSE JUndefined
  ELSE IF state.t = "object"
  THEN LET mapped == [i \in 1..Len(state.items) |->
                        Entry(state.items[i].k, cleanState(state.items[i].v))]
           Keep(entry) == /\ entry.k \notin NOISE_KEYS
                          /\ ~IsInternalKey(entry.k)
                          /\ isMeaningfulValue(entry.v)
           cleaned == SelectSeq(mapped, Keep)
       IN IF Len(cleaned) > 0 THEN JObject(cleaned) ELSE JUndefined
  ELSE state

\* filterState(state, excludeKeys), lines 116-133
RECURSIVE filterState(_, _)
filterState(state, excludeKeys) ==
  JObject([i \in 1..Len(state.items) |->
     LET key == state.items[i].k
         value == state.items[i].v
     IN IF key \in excludeKeys THEN Entry(key, JString("[REDACTED]"))
        ELSE IF value.t = "object" THEN Entry(key, filterState(value, excludeKeys))
        ELSE Entry(key, value)])

\* what a function call gives: a value, or an exception
Returned(v) == [kind |-> "value", v |-> v]
Thrown == [kind |-> "throw", v |-> JUndefined]

\* the state the store of adapter a holds
StateOf(a) == IF a = win.holder THEN win.S ELSE PlainState

\* store.getState() / store.get(atom) of the page: a store in a bad state throws
storeGetState(a) ==
  IF win.stores[a] = "bad" THEN Thrown ELSE Returned(StateOf(a))

\* an adapter without the try around the store call
Uncaught(r) == r

\* zustand.ts 67-76, redux.ts 66-70, jotai.ts 53-58: try { ... } catch { }
Caught(r) == IF r.kind = "throw" THEN Returned(JNull) ELSE r

\* adapter.getState()
adapterGetState(a) ==
  IF win.stores[a] = "absent" THEN Returned(JNull)
  ELSE LET r == Caught(storeGetState(a)) IN
       IF r.kind = "throw" THEN r
       ELSE IF a = "redux" THEN r
       ELSE \* zustand.ts 79, jotai.ts 61: an empty combined state is null
            IF r.v.t = "object" /\ Len(r.v.items) > 0 THEN r ELSE Returned(JNull)

\* adapter.isAvailable(): a store was found; jotai reads the atoms to tell
adapterIsAvailable(a) ==
  IF a = "jotai"
  THEN LET r == adapterGetState(a) IN
       IF r.kind = "throw" THEN r
       ELSE IF r.v.t = "null" THEN Returned(JFalse) ELSE Returned(JNumber)
  ELSE IF win.stores[a] = "absent" THEN Returned(JFalse) ELSE Returned(JNumber)

\* lines 18-35: the loop over the adapters from the i-th on, `state` being
\* the entries collected so far
RECURSIVE CaptureFrom(_, _, _)
CaptureFrom(i, state, exclude) ==
  IF i > Len(adapters) THEN Returned(JObject(state))
  ELSE LET a == adapters[i]
           available == adapterIsAvailable(a)
           got == adapterGetState(a)
       IN IF available.kind = "throw" THEN Thrown
          ELSE IF available.v.t = "false" THEN CaptureFrom(i + 1, state, exclude)
          ELSE IF got.kind = "throw" THEN Thrown
          ELSE IF got.v.t = "null" THEN CaptureFrom(i + 1, state, exclude)
          ELSE LET filtered == IF exclude.given
                               THEN filterState(got.v, exclude.keys) ELSE got.v
                   cleaned == cleanState(filtered)
               IN IF cleaned.t = "object" /\ Len(cleaned.items) > 0
                  THEN CaptureFrom(i + 1, Append(state, Entry(a, cleaned)), exclude)
                  ELSE CaptureFrom(i + 1, state, exclude)

\* the customStateGetter option: none, a getter that throws, or one that
\* returns a value
CustomGetters ==
  {[given |-> FALSE, throws |-> FALSE, v |-> JUndefined],
   [given |-> TRUE, throws |-> TRUE, v |-> JUndefined],
   [given |-> TRUE, throws |-> FALSE, v |-> JString("")],
   [given |-> TRUE, throws |-> FALSE, v |-> PlainState]}

\* the excludeKeys option
ExcludeOptions == {[given |-> FALSE, keys |-> {}], [given |-> TRUE, keys |-> {"user"}]}

\* lines 16-49: what captureAppState returns on the page as it is
CapturedAppState(custom, exclude) ==
  LET fromAdapters == CaptureFrom(1, <<>>, exclude)
      customState == cleanState(custom.v)
  IN IF fromAdapters.kind = "throw" THEN Thrown
     ELSE IF custom.given /\ ~custom.throws /\ isMeaningfulValue(customState)
     THEN Returned(JObject(Append(fromAdapters.v.items, Entry("custom", customState))))
     ELSE fromAdapters

\* captureAppState(customStateGetter, excludeKeys), lines 12-50
captureAppState(custom, exclude) ==
     /\ appState' = CapturedAppState(custom, exclude)
     /\ UNCHANGED <<win, tree, path, element, snapshot, deliveryVars, consoleVars, peerVars>>

\* ---------------------------------------------------------------------
\* component-path.ts
\* ---------------------------------------------------------------------

\* a fiber: tag "function", "class" (component tags) or "host"; name is the
\* displayName or name of its type, "" for none; props says that
\* extractProps finds a prop to keep; cells are its hook-state cells, the
\* last of which points back to the first when cellLoop is set
Fiber(tag, name, display, props, cells, cellLoop) ==
  [tag |-> tag, name |-> name, display |-> display, props |-> props,
   cells |-> cells, cellLoop |-> cellLoop]
HostFiber == Fiber("host", "", FALSE, TRUE, <<>>, FALSE)
Component(name) == Fiber("function", name, FALSE, TRUE, <<"skip", "value", "boolean">>, FALSE)
Looping(name) == Fiber("function", name, TRUE, FALSE, <<"value">>, TRUE)
ClassComponent(name) == Fiber("class", name, FALSE, FALSE, <<"value">>, FALSE)

\* names that match one of FRAMEWORK_COMPONENT_PATTERNS, among the names used
FrameworkNames ==
  {"Router", "Suspense", "Provider", "Fragment", "StrictMode", "Profiler", "ThemeContext"}

\* isFrameworkComponent(name), lines 108-110
isFrameworkComponent(name) == name \in FrameworkNames

\* COMPONENT_TAGS.has(fiber.tag)
isComponentFiber(fiber) == fiber.tag \in {"function", "class"}

\* lines 379-446: the values extractLocalState keeps, walking the cells from
\* position pos with `count` cells visited so far
RECURSIVE WalkCells(_, _, _, _)
WalkCells(fiber, pos, count, states) ==
  IF pos = 0 \/ count >= HOOK_CELL_LIMIT THEN states
  ELSE LET next == IF pos < Len(fiber.cells) THEN pos + 1
                   ELSE IF fiber.cellLoop THEN 1 ELSE 0
           cell == fiber.cells[pos]
       IN WalkCells(fiber, next, count + 1,
                    IF cell = "skip" THEN states ELSE Append(states, cell))

\* extractLocalState(fiber): the number of values returned, 0 for undefined
extractLocalState(fiber) ==
  IF fiber.tag # "function" THEN 0
  ELSE LET states == WalkCells(fiber, IF fiber.cells = <<>> THEN 0 ELSE 1, 0, <<>>)
           IsMeaningful(cell) == cell = "value"
       IN Len(SelectSeq(states, IsMeaningful))

\* the fibers and DOM ancestors of the elements studied: fibers[1] is the
\* fiber of the element and fibers[i + 1] the return of fibers[i]; the return
\* of the last one is null (back = 0) or fibers[back]; dom[1] is the
\* data-component attribute of the element ("" for none), dom[i + 1] that of
\* the parentElement of dom[i]
FiberKinds == {HostFiber, Component("App"), Component("Button"), Component("Router"),
               Looping("Form"), ClassComponent("App")}
FiberChains ==
  {<<>>} \cup {<<a>> : a \in FiberKinds} \cup {<<a, b>> : a, b \in FiberKinds}
    \cup {<<HostFiber, a, b>> : a, b \in FiberKinds}
    \cup {<<HostFiber, Component("Router"), Component("Suspense"), Component("Provider"),
            Component("Fragment"), Component("StrictMode"), Component("Profiler")>>}
DomChains ==
  {<<a>> : a \in {"", "Button", "ThemeContext"}}
    \cup {<<a, b>> : a \in {"", "Button"}, b \in {"", "Form", "App", "ThemeContext"}}
Trees ==
  {[fibers |-> f, back |-> b, dom |-> d] :
     f \in FiberChains, b \in {0, 1}, d \in DomChains}

\* fiber.return of the fiber at position i
ReturnOf(i) ==
  IF i < Len(tree.fibers) THEN i + 1
  ELSE IF Len(tree.fibers) = 0 THEN 0 ELSE tree.back

\* turn is the parity of the number of loop turns the call has taken
IdlePath == [pc |-> "idle", fiber |-> 0, current |-> 0, allComponents |-> <<>>,
             seen |-> {}, result |-> <<>>, turn |-> 0]

\* the first n entries of a sequence, where the last n are wanted
FirstN(seq, n) == SubSeq(seq, 1, IF Len(seq) < n THEN Len(seq) ELSE n)

\* the last n entries of a sequence: Array.prototype.slice(-n)
LastN(seq, n) == IF Len(seq) <= n THEN seq ELSE SubSeq(seq, Len(seq) - n + 1, Len(seq))

\* lines 466-471: extractComponentPath(element) up to its first loop
StartPath ==
  /\ path.pc = "idle"
  /\ path' = [IdlePath EXCEPT !.pc = "fibers",
                              !.fiber = IF tree.fibers = <<>> THEN 0 ELSE 1]
  /\ UNCHANGED <<win, appState, tree, element, snapshot, deliveryVars, consoleVars, peerVars>>

\* lines 472-507: one turn of while (fiber)
FiberStep ==
  /\ path.pc = "fibers"
  /\ path.fiber # 0
  /\ LET fiber == tree.fibers[path.fiber]
         name == fiber.name
         noise == isFrameworkComponent(name)
         item == [name |-> name,
                  source |-> IF fiber.display THEN "displayName" ELSE "fiber",
                  at |-> path.fiber,
                  props |-> ~noise /\ fiber.props,
                  state |-> IF noise THEN 0 ELSE extractLocalState(fiber)]
         add == isComponentFiber(fiber) /\ name # "" /\ name \notin path.seen
     IN path' = [path EXCEPT
                   !.fiber = ReturnOf(path.fiber),
                   !.turn = 1 - path.turn,
                   !.seen = IF add THEN path.seen \cup {name} ELSE path.seen,
                   !.allComponents = IF add THEN <<item>> \o path.allComponents
                                     ELSE path.allComponents]
  /\ UNCHANGED <<win, appState, tree, element, snapshot, deliveryVars, consoleVars, peerVars>>

\* lines 507-510: the fiber walk is over, the walk over the DOM ancestors starts
FibersDone ==
  /\ path.pc = "fibers"
  /\ path.fiber = 0
  /\ path' = [path EXCEPT !.pc = "dom", !.current = 1]
  /\ UNCHANGED <<win, appState, tree, element, snapshot, deliveryVars, consoleVars, peerVars>>

\* lines 511-518: one turn of while (current)
DomStep ==
  /\ path.pc = "dom"
  /\ path.current # 0
  /\ LET componentAttr == tree.dom[path.current]
         add == componentAttr # "" /\ componentAttr \notin path.seen
         item == [name |-> componentAttr, source |-> "attribute", at |-> path.current,
                  props |-> FALSE, state |-> 0]
     IN path' = [path EXCEPT
                   !.current = IF path.current < Len(tree.dom) THEN path.current + 1 ELSE 0,
                   !.turn = 1 - path.turn,
                   !.seen = IF add THEN path.seen \cup {componentAttr} ELSE path.seen,
                   !.allComponents = IF add THEN Append(path.allComponents, item)
                                     ELSE path.allComponents]
  /\ UNCHANGED <<win, appState, tree, element, snapshot, deliveryVars, consoleVars, peerVars>>

\* lines 520-529: filter out the framework components and return
FinishPath ==
  /\ path.pc = "dom"
  /\ path.current = 0
  /\ LET IsApp(c) == ~isFrameworkComponent(c.name)
         appComponents == SelectSeq(path.allComponents, IsApp)
     IN path' = [path EXCEPT
                   !.pc = "done",
                   !.result = IF Len(appComponents) = 0 /\ Len(path.allComponents) > 0
                              THEN LastN(path.allComponents, FALLBACK_ITEMS)
                              ELSE appComponents]
  /\ UNCHANGED <<win, appState, tree, element, snapshot, deliveryVars, consoleVars, peerVars>>

\* ---------------------------------------------------------------------
\* dom-utils.ts and the element extraction of the Safari extension
\* ---------------------------------------------------------------------

\* the sub-extractions of a snapshot
Subs == {"selector", "xpath", "attributes", "computedStyles", "geometry", "text"}

\* lengths that strings of the page take
Huge == 1000
TagLen == 3

\* an element: throws holds the sub-extractions whose DOM accesses throw on
\* it; the other fields are the lengths of its strings, 0 for an absent one:
\* id, class (one class name), trimmed textContent, one attribute value,
\* trimmed innerHTML, data-testid, data-component, the id of its parent, the
\* id and the trimmed text of its previous element sibling; nth is its
\* position among the siblings of its tag when there are several, else 0
PlainElement ==
  [throws |-> {}, id |-> 0, class |-> 0, text |-> 3, attr |-> 3, html |-> 3,
   testId |-> 0, component |-> 0, nth |-> 0, parentId |-> 0, sibId |-> 0, sibText |-> 0]
FaultyElements == {[PlainElement EXCEPT !.throws = t] : t \in SUBSET Subs}
SizedElements ==
  {[throws |-> {}, id |-> i, class |-> c, text |-> t, attr |-> a, html |-> h,
    testId |-> d, component |-> 0, nth |-> n, parentId |-> p, sibId |-> si, sibText |-> st] :
     i \in {0, 3, Huge}, c \in {0, 3, Huge},
     t \in {0, TEXT_LIMIT, TEXT_LIMIT + 1},
     a \in {ATTRIBUTE_LIMIT, ATTRIBUTE_LIMIT + 1},
     h \in {INNER_HTML_LIMIT, INNER_HTML_LIMIT + 1},
     d \in {0, 3}, n \in {0, 2}, p \in {0, 3}, si \in {0, Huge},
     st \in {0, SIBLING_TEXT_LIMIT}}
    \cup {[PlainElement EXCEPT !.component = 3]}
Elements == FaultyElements \cup SizedElements

NoSnapshot == [by |-> "none", kind |-> "none"]

\* lines 73-140: the length of generateUniqueSelector(element)
generateUniqueSelector(e) ==
  IF e.testId > 0 THEN 16 + e.testId        \* [data-testid="..."]
  ELSE IF e.id > 0 THEN 1 + e.id            \* #id
  ELSE IF e.component > 0 THEN 19 + e.component   \* [data-component="..."]
  ELSE LET classes == IF e.class >= 3 THEN 1 + e.class ELSE 0
           nth == IF e.nth > 0 THEN 15 ELSE 0       \* :nth-of-type(n)
           hint == IF e.parentId > 0 THEN e.parentId + 4 ELSE 0   \* #id >
       IN hint + TagLen + classes + nth

\* lines 145-164: the length of getElementSummary(element.previousElementSibling),
\* 0 for null; the sibling has a tag and at most an id and a text
getElementSummary(e) ==
  IF e.sibId = 0 /\ e.sibText = 0 THEN 0
  ELSE LET id == IF e.sibId > 0 THEN 1 + e.sibId ELSE 0
           text == IF e.sibText > SIBLING_TEXT_LIMIT THEN SIBLING_TEXT_LIMIT ELSE e.sibText
           quoted == IF text = 0 THEN 0
                     ELSE 3 + text + (IF text >= SIBLING_TEXT_LIMIT THEN 3 ELSE 0)
       IN 2 + TagLen + id + quoted

\* the length of a string cut to limit characters plus "..." when longer
Truncated(len, limit) == IF len > limit THEN limit + 3 ELSE len

\* the fields of a snapshot whose extraction throws on the element, as
\* extractElementInfo reads them: it makes no path expression
ThrowingInfo(e) == e.throws \ {"xpath"}

\* lines 245-284: extractElementInfo(element); the string fields are given
\* by their lengths
extractElementInfo ==
  /\ snapshot' =
       IF ThrowingInfo(element) # {} THEN [by |-> "extractElementInfo", kind |-> "throw"]
       ELSE [by |-> "extractElementInfo", kind |-> "value",
             fields |-> [f \in Subs |-> IF f = "xpath" THEN "absent" ELSE "value"],
             len |-> [tagName |-> TagLen,
                      id |-> element.id,
                      className |-> element.class,
                      textContent |-> Truncated(element.text, TEXT_LIMIT),
                      attribute |-> Truncated(element.attr, ATTRIBUTE_LIMIT),
                      selector |-> generateUniqueSelector(element),
                      innerHTML |-> Truncated(element.html, INNER_HTML_LIMIT),
                      previousSibling |-> getElementSummary(element)]]
  /\ UNCHANGED <<win, appState, tree, path, element, deliveryVars, consoleVars, peerVars>>

\* content.js, lines 544-615: extractElementData(element), each sub-extraction
\* in a try of its own
extractElementData ==
  /\ snapshot' = [by |-> "extractElementData", kind |-> "value",
                  fields |-> [f \in Subs |-> IF f \in element.throws THEN "default"
                                             ELSE "value"]]
  /\ UNCHANGED <<win, appState, tree, path, element, deliveryVars, consoleVars, peerVars>>

\* ---------------------------------------------------------------------
\* report ids
\* ---------------------------------------------------------------------

\* what Math.random().toString(36).substring(2, 8) may give: up to six
\* digits in base 36, possibly none
Randoms == {"", "k3x9q1", "a7f2mz"}

\* lines 83-87: generateReportId(); the id `report-${timestamp}-${random}`
\* is kept as the pair it is made of
ReportId(timestamp, random) == [timestamp |-> timestamp, random |-> random]

generateReportId ==
  /\ Len(issued) < MaxIds
  /\ \E random \in Randoms : issued' = Append(issued, ReportId(now, random))
  /\ UNCHANGED <<deliveryVars, consoleVars, extractVars, callerVars, serverVars, storageVars, urlVars>>

\* ---------------------------------------------------------------------
\* the callers of captureContext
\* ---------------------------------------------------------------------

\* ContextReporter.tsx lines 40-45 and 68-86: the component renders while
\* caller p is not inside handleDescriptionSubmit; the handler it will run
\* next closes over the lastReportMethod of this render
Render(p) ==
  /\ cap[p].pc \in {"idle", "done"}
  /\ held' = [held EXCEPT ![p] = lastReportMethod]
  /\ UNCHANGED <<deliveryVars, consoleVars, extractVars, idVars, serverVars, storageVars, urlVars>>

\* ---------------------------------------------------------------------
\* the server (server/index.ts)
\* ---------------------------------------------------------------------

\* the ids of the reports the server is sent; they differ
ServerIds == {"r1", "r2"}

\* the reports posted: when they were made, the id of the selected element,
\* the description and the tag name
ServerReports ==
  {[id |-> i, timestamp |-> t, elementId |-> e, description |-> d, tagName |-> "BUTTON"] :
     i \in ServerIds, t \in {0, 400, 1000}, e \in {"", "Submit"},
     d \in {"", "submit form"}}

\* description?.split(' ')[0]
FirstWord(text) == IF text = "submit form" THEN "submit" ELSE text

\* line 180: lower case, runs of other characters made '-', 20 characters;
\* the texts of ServerReports are shorter than SLUG_LIMIT
Slugify(text) ==
  CASE text = "Submit" -> "submit"
    [] text = "BUTTON" -> "button"
    [] OTHER -> text

\* lines 172-183: generateFilename(report): the date and the time of day to
\* the second, and the slug
generateFilename(report) ==
  LET slug == IF report.elementId # "" THEN report.elementId
              ELSE IF FirstWord(report.description) # ""
                   THEN FirstWord(report.description)
                   ELSE report.tagName
  IN [second |-> report.timestamp \div 1000, slug |-> Slugify(slug)]

\* a markdown file that never mentions a screenshot
WriteReportPlain(dir, pending, shot) ==
  {f \in dir : f.path # pending.filename}
    \cup {[path |-> pending.filename, id |-> pending.id, shot |-> {}]}

\* writeFile(join(REPORTS_DIR, filename + '.md'), markdown): the file at that
\* path now holds the markdown of the report, with or without a screenshot
WriteReport(dir, pending, shot) ==
  {f \in dir : f.path # pending.filename}
    \cup {[path |-> pending.filename, id |-> pending.id, shot |-> shot]}

\* pendingReports.get(id), as the set of the entry found
Pending(id) == {e \in pendingReports : e.id = id}

\* pendingReports.delete(id)
Delete(id) == pendingReports \ Pending(id)

\* the server still takes requests
Listening == process = "up"

\* lines 461-492: POST /report with a body that parses (or not)
PostReport(report, valid) ==
  /\ Listening
  /\ answered.report[report.id] = 0
  /\ now + PENDING_TIMEOUT <= MaxTime
  /\ IF valid
     THEN /\ pendingReports' = Delete(report.id) \cup
                                {[id |-> report.id, report |-> report,
                                  filename |-> generateFilename(report)]}
          /\ timers' = timers \cup {[id |-> report.id, due |-> now + PENDING_TIMEOUT]}
          /\ answered' = [answered EXCEPT !.report[report.id] = 200]
     ELSE /\ answered' = [answered EXCEPT !.report[report.id] = 500]
          /\ UNCHANGED <<pendingReports, timers>>
  /\ UNCHANGED <<process, reportsDir, screenshotsDir, mdWrites>>
  /\ UNCHANGED <<deliveryVars, consoleVars, extractVars, idVars, callerVars, storageVars, urlVars>>

\* lines 471-480: the timer of a report fires
TimerFires(timer) ==
  /\ process # "exited"
  /\ timer \in timers
  /\ now >= timer.due
  /\ timers' = timers \ {timer}
  /\ IF Pending(timer.id) # {}
     THEN LET pending == CHOOSE e \in Pending(timer.id) : TRUE IN
          /\ pendingReports' = Delete(timer.id)
          /\ reportsDir' = WriteReport(reportsDir, pending, {})
          /\ mdWrites' = Append(mdWrites, [id |-> timer.id, path |-> pending.filename,
                                           shot |-> {}])
     ELSE UNCHANGED <<pendingReports, reportsDir, mdWrites>>
  /\ UNCHANGED <<process, screenshotsDir, answered>>
  /\ UNCHANGED <<deliveryVars, consoleVars, extractVars, idVars, callerVars, storageVars, urlVars>>

\* lines 495-539: POST /screenshot for report id; the body parses or not, and
\* the disk takes the image or writeFile rejects
PostScreenshot(id, valid, disk) ==
  /\ Listening
  /\ answered.screenshot[id] = 0
  /\ IF ~valid
     THEN /\ answered' = [answered EXCEPT !.screenshot[id] = 500]
          /\ UNCHANGED <<pendingReports, reportsDir, screenshotsDir, mdWrites>>
     ELSE IF Pending(id) # {}
     THEN LET pending == CHOOSE e \in Pending(id) : TRUE IN
          /\ pendingReports' = Delete(id)
          /\ IF disk
             THEN /\ screenshotsDir' = screenshotsDir \cup {[path |-> pending.filename]}
                  /\ reportsDir' = WriteReport(reportsDir, pending, {pending.filename})
                  /\ mdWrites' = Append(mdWrites, [id |-> id, path |-> pending.filename,
                                                   shot |-> {pending.filename}])
                  /\ answered' = [answered EXCEPT !.screenshot[id] = 200]
             ELSE /\ answered' = [answered EXCEPT !.screenshot[id] = 500]
                  /\ UNCHANGED <<reportsDir, screenshotsDir, mdWrites>>
     ELSE /\ UNCHANGED <<pendingReports, reportsDir, mdWrites>>
          /\ IF disk
             THEN /\ screenshotsDir' = screenshotsDir \cup {[path |-> [orphan |-> now]]}
                  /\ answered' = [answered EXCEPT !.screenshot[id] = 200]
             ELSE /\ answered' = [answered EXCEPT !.screenshot[id] = 500]
                  /\ UNCHANGED screenshotsDir
  /\ UNCHANGED <<process, timers>>
  /\ UNCHANGED <<deliveryVars, consoleVars, extractVars, idVars, callerVars, storageVars, urlVars>>

\* lines 612-617: SIGINT: server.close(...)
Sigint ==
  /\ process = "up"
  /\ process' = "closing"
  /\ UNCHANGED <<pendingReports, timers, reportsDir, screenshotsDir, answered, mdWrites>>
  /\ UNCHANGED <<deliveryVars, consoleVars, extractVars, idVars, callerVars, storageVars, urlVars>>

\* line 615: the connections are closed: process.exit(0); the armed timers
\* and the map of pending reports go with the process
Exit ==
  /\ process = "closing"
  /\ process' = "exited"
  /\ timers' = {}
  /\ pendingReports' = {}
  /\ UNCHANGED <<reportsDir, screenshotsDir, answered, mdWrites>>
  /\ UNCHANGED <<deliveryVars, consoleVars, extractVars, idVars, callerVars, storageVars, urlVars>>

\* ---------------------------------------------------------------------
\* specifications
\* ---------------------------------------------------------------------

InitConsole ==
  /\ consoleBuffer = <<>>
  /\ isIntercepting = FALSE
  /\ inserted = <<>>
  /\ consoleFns = Native
  /\ originalError = NULL
  /\ originalWarn = NULL
  /\ starts = 0
  /\ lastCall = [level |-> "none", self |-> FALSE, wrapped |-> FALSE, starts |-> 0,
                 appended |-> 0, original |-> 0, overflow |-> FALSE]
  /\ recent = <<>>

InitDelivery ==
  /\ now = 0
  /\ serverUp \in BOOLEAN
  /\ fault = "none"
  /\ cachedServerAvailable = NULL
  /\ probedUrl = NULL
  /\ lastServerCheck = 0
  /\ localStorage = <<>>
  /\ cap = [p \in Captures |-> IdleCapture]
  /\ chk = IdleCheck
  /\ nextId = 1
  /\ lastReportMethod = NULL
  /\ clearedPending = FALSE
  /\ lastRet = -1

\* no store is exposed and nothing was captured
InitExtract ==
  /\ win = [stores |-> [a \in AdapterNames |-> "absent"], holder |-> "zustand",
            S |-> JObject(<<>>)]
  /\ appState = [kind |-> "none", v |-> JUndefined]
  /\ tree = [fibers |-> <<>>, back |-> 0, dom |-> <<"">>]
  /\ path = IdlePath
  /\ element = PlainElement
  /\ snapshot = NoSnapshot

InitIds == issued = <<>>

InitCallers == held = [p \in Captures |-> NULL]

\* ---------------------------------------------------------------------
\* safari-extension background.js (chrome-extension lib/storage.ts and the
\* bundled background script do the same without the id and the trim)
\* ---------------------------------------------------------------------

\* the messages the service worker can be handling at the same time
Handlers == {"m1", "m2"}

IdleMessage ==
  [pc |-> "idle", action |-> "none", n |-> 0, id |-> 0, reports |-> <<>>,
   response |-> "none"]

\* lines 140-144: reports.length = MAX_REPORTS
TrimReports(reports) ==
  IF Len(reports) > MAX_REPORTS THEN SubSeq(reports, 1, MAX_REPORTS) ELSE reports

\* line 180: reports.filter(r => r.id !== id)
Without(reports, id) == SelectSeq(reports, LAMBDA r : r # id)

\* a message is routed to its handler (lines 51-83)
Route(h) ==
  /\ messages[h].pc = "idle"
  /\ sentMessages < MaxMessages
  /\ sentMessages' = sentMessages + 1

\* saveReport up to `await browser.storage.local.set`: validateReport, the
\* read of the stored list, the new report (its id is new: the number of the
\* message) put first, the trim
saveReportRead(h, valid) ==
  /\ Route(h)
  /\ messages' = [messages EXCEPT ![h] =
       IF valid
       THEN [pc |-> "set", action |-> "saveReport", n |-> sentMessages + 1,
             id |-> sentMessages + 1,
             reports |-> TrimReports(<<sentMessages + 1>> \o stored), response |-> "none"]
       ELSE [IdleMessage EXCEPT !.action = "saveReport", !.n = sentMessages + 1,
                                !.response = "error"]]
  /\ UNCHANGED stored
  /\ UNCHANGED <<deliveryVars, consoleVars, extractVars, idVars, callerVars, serverVars, urlVars>>

\* deleteReport up to `await browser.storage.local.set`: the read of the
\* stored list, the filter, "Report not found" when nothing was filtered out
deleteReportRead(h, id) ==
  /\ Route(h)
  /\ LET filtered == Without(stored, id) IN
     messages' = [messages EXCEPT ![h] =
       IF Len(filtered) = Len(stored)
       THEN [IdleMessage EXCEPT !.action = "deleteReport", !.n = sentMessages + 1,
                                !.id = id, !.response = "notFound"]
       ELSE [pc |-> "set", action |-> "deleteReport", n |-> sentMessages + 1,
             id |-> id, reports |-> filtered, response |-> "none"]]
  /\ UNCHANGED stored
  /\ UNCHANGED <<deliveryVars, consoleVars, extractVars, idVars, callerVars, serverVars, urlVars>>

\* browser.storage.local.set({reports}) of a saveReport or a deleteReport
\* takes effect (or rejects: the catch answers success: false)
StorageSet(h, ok) ==
  /\ messages[h].pc = "set"
  /\ stored' = IF ok THEN messages[h].reports ELSE stored
  /\ messages' = [messages EXCEPT ![h] =
       [@ EXCEPT !.pc = "idle", !.response = IF ok THEN "success" ELSE "error"]]
  /\ UNCHANGED sentMessages
  /\ UNCHANGED <<deliveryVars, consoleVars, extractVars, idVars, callerVars, serverVars, urlVars>>

\* clearAllReports: one storage.local.set({reports: []})
clearAllReports(h) ==
  /\ Route(h)
  /\ stored' = <<>>
  /\ messages' = [messages EXCEPT ![h] =
       [IdleMessage EXCEPT !.action = "clearAllReports", !.n = sentMessages + 1,
                           !.response = "success"]]
  /\ UNCHANGED <<deliveryVars, consoleVars, extractVars, idVars, callerVars, serverVars, urlVars>>

InitServer ==
  /\ process = "up"
  /\ pendingReports = {}
  /\ timers = {}
  /\ reportsDir = {}
  /\ screenshotsDir = {}
  /\ answered = [report |-> [i \in ServerIds |-> 0], screenshot |-> [i \in ServerIds |-> 0]]
  /\ mdWrites = <<>>

InitStorage ==
  /\ stored = <<>>
  /\ messages = [h \in Handlers |-> IdleMessage]
  /\ sentMessages = 0

InitUrls == serverUrl = [p \in Callers |-> DEFAULT_SERVER_URL]

InitPeer == InitIds /\ InitCallers /\ InitServer /\ InitStorage /\ InitUrls

Init == InitDelivery /\ InitConsole /\ InitExtract /\ InitPeer

Outcomes == {"ok", "status", "error"}

\* the steps of one captureContext call after its start
CaptureStep(p) ==
  \/ \E o \in Outcomes : HealthResponse(p, o)
  \/ \E o \in Outcomes : PostResponse(p, o)
  \/ Abort(p)
  \/ \E ok \in BOOLEAN : ShotDone(p, ok)

Next ==
  \/ \E p \in Captures, force \in BOOLEAN : StartCapture(p, force)
  \/ \E p \in Captures : CaptureStep(p)
  \/ clearServerCache
  \/ ServerToggle
  \/ Tick

\* captures that may overlap, with a working localStorage and no throwing
\* collaborator
Spec == Init /\ [][Next]_vars

NextFault ==
  \/ \E force \in BOOLEAN : StartCapture("a", force)
  \/ CaptureStep("a")
  \/ \E f \in Faults : SetFault(f)
  \/ ServerToggle
  \/ Tick

\* one capture at a time when extraction, localStorage or the onCapture
\* callback may throw
SpecFault == Init /\ [][NextFault]_vars

NextCache ==
  \/ \E force \in BOOLEAN : StartCapture("a", force)
  \/ CaptureStep("a")
  \/ IsServerAvailable
  \/ \E o \in Outcomes : CheckResponse(o)
  \/ CheckAbort
  \/ clearServerCache
  \/ ServerToggle
  \/ Tick

\* one capture next to the isServerAvailable / clearServerCache calls of the UI
SpecCache == Init /\ [][NextCache]_vars

\* the timers of the browser fire and its clock advances
SpecLive ==
  /\ Init /\ [][NextCache]_vars
  /\ WF_vars(Tick)
  /\ WF_vars(Abort("a"))
  /\ WF_vars(CheckAbort)

NextHistory ==
  \/ \E force \in BOOLEAN : StartCaptureUpTo("a", force, MaxHistory)
  \/ CaptureStep("a")
  \/ ServerToggle
  \/ Tick

\* a long run of captures, one after the other
SpecHistory == Init /\ [][NextHistory]_vars

NextConsole ==
  \/ startConsoleCapture
  \/ stopConsoleCapture
  \/ \E level \in Levels, self \in BOOLEAN : ConsoleCall(level, self)
  \/ clearConsoleBuffer

\* the console buffer of a page that logs errors and warnings
SpecConsole == Init /\ [][NextConsole]_vars

\* ---------------------------------------------------------------------
\* properties
\* ---------------------------------------------------------------------

\* the logContextReport call of p has just returned to captureContext
JustLogged(p) == cap[p].pc = "shot" /\ cap[p].log = "resolved"

Completes(p) ==
  /\ cap'[p].log = "resolved"
  /\ cap[p].log # "resolved" \/ cap[p].id # cap'[p].id

InHistory(id) == \E i \in 1..Len(getStoredReports) : getStoredReports[i] = id

\* C3 as stated: every captureContext call that has returned returned a
\* report (not null), and that report is in the tagged console log and in
\* the local history.
C3_AlwaysReport ==
  \A p \in Captures :
    cap[p].pc = "done" =>
      /\ cap[p].ret = "report"
      /\ cap[p].logged
      /\ InHistory(cap[p].id)

\* C4 as stated: with a reachable endpoint and forceConsole = false,
\* logContextReport returns method 'server' for every state of the cache.
C4_ReachableMeansServer ==
  \A p \in Captures :
    JustLogged(p) /\ ~cap[p].force /\ cap[p].up => cap[p].method = "server"

\* C4 amended: with a reachable endpoint and forceConsole = false,
\* logContextReport returns method 'server' unless the availability cache
\* held a negative result younger than SERVER_CHECK_INTERVAL at the call.
C4_ServerUnlessCachedDown ==
  \A p \in Captures :
    JustLogged(p) /\ ~cap[p].force /\ cap[p].up /\ cap[p].hit # "hitFalse" =>
      cap[p].method = "server"

\* a report went to the server on a cached positive result
C4_Witness ==
  \E p \in Captures :
    /\ JustLogged(p)
    /\ ~cap[p].force
    /\ cap[p].up
    /\ cap[p].hit = "hitTrue"
    /\ cap[p].method = "server"

\* C5: a logContextReport call that begins less than SERVER_CHECK_INTERVAL
\* after the probe of the previous call, which failed, issues no probe.
C5_NoSecondProbe ==
  \A p \in Captures :
    LET c == cap[p] IN
    c.prevT >= 0 /\ c.t0 - c.prevT < SERVER_CHECK_INTERVAL => ~c.probed

\* the second call returned 'console' without a probe, later than the first
C5_Witness ==
  \E p \in Captures :
    /\ JustLogged(p)
    /\ cap[p].prevT >= 0
    /\ cap[p].t0 > cap[p].prevT
    /\ cap[p].t0 - cap[p].prevT < SERVER_CHECK_INTERVAL
    /\ ~cap[p].probed
    /\ cap[p].method = "console"

\* this step sends GET /health
ProbeIssued ==
  \/ chk.pc = "idle" /\ chk'.pc = "health"
  \/ \E p \in Captures : ~AwaitsHealth(cap[p]) /\ AwaitsHealth(cap'[p])

\* C6 as stated: the first availability check that starts after
\* clearServerCache() returned sends a probe.
C6_ClearForcesProbe ==
  [][clearedPending /\ ~clearedPending' => ProbeIssued]_vars

\* C7: after n logContextReport calls the history is the min(n, 20) most
\* recent reports, most recent first, and never longer than 20.
C7_HistoryCap ==
  LET n == nextId - 1
      k == IF n < HISTORY_LIMIT THEN n ELSE HISTORY_LIMIT
  IN /\ Len(getStoredReports) = k
     /\ Len(getStoredReports) <= HISTORY_LIMIT
     /\ \A i \in 1..k : getStoredReports[i] = n + 1 - i

\* more than 20 reports were logged and the oldest were dropped
C7_Witness ==
  /\ nextId - 1 > HISTORY_LIMIT
  /\ Len(getStoredReports) = HISTORY_LIMIT
  /\ getStoredReports[HISTORY_LIMIT] = nextId - HISTORY_LIMIT

\* the screenshot of this returned call was not captured or not delivered
ShotFailed(c) == c.pc = "done" /\ c.shot \in {"captureFailed", "console", "threw"}

\* C8: when the screenshot cannot be captured or delivered, captureContext
\* still returns the report, which is delivered and in the history, and the
\* screenshot was attempted once.
C8_ScreenshotNeverFailsReport ==
  \A p \in Captures :
    ShotFailed(cap[p]) =>
      /\ cap[p].ret = "report"
      /\ cap[p].method \in {"server", "console"}
      /\ InHistory(cap[p].id)
      /\ cap[p].tries = 1

\* a report accepted by the server whose screenshot was not
C8_Witness ==
  \E p \in Captures :
    /\ ShotFailed(cap[p])
    /\ cap[p].method = "server"
    /\ cap[p].ret = "report"

\* C9: a logContextReport or logContextScreenshot call that waits for the
\* endpoint eventually completes, even if the endpoint never answers.
C9_EventuallyCompletes ==
  \A p \in Captures :
    (AwaitsHealth(cap[p]) \/ AwaitsPost(cap[p])) ~> (cap[p].pc \in {"shot", "done"})

\* a logContextReport call has returned 'console' after its fetch was aborted
C9_Witness ==
  \E p \in Captures :
    /\ JustLogged(p)
    /\ cap[p].aborted
    /\ cap[p].method = "console"
    /\ now >= cap[p].t0 + REPORT_TIMEOUT

\* C10: the console buffer never holds more than 50 entries, and after more
\* than 50 captured calls it holds exactly the 50 most recent, in order.
C10_RingBuffer ==
  LET n == Len(inserted) IN
  /\ Len(consoleBuffer) <= MAX_BUFFER_SIZE
  /\ n <= MAX_BUFFER_SIZE => consoleBuffer = inserted
  /\ n > MAX_BUFFER_SIZE =>
       /\ Len(consoleBuffer) = MAX_BUFFER_SIZE
       /\ consoleBuffer = SubSeq(inserted, n - MAX_BUFFER_SIZE + 1, n)

\* 52 calls were captured; the buffer starts at the third
C10_Witness ==
  /\ Len(inserted) = MAX_BUFFER_SIZE + 2
  /\ Len(consoleBuffer) = MAX_BUFFER_SIZE
  /\ consoleBuffer[1].n = 3

\* C11: however often startConsoleCapture is called, console.error and
\* console.warn are wrapped once: a call on a wrapped channel appends one
\* entry (none for the library's own messages) and reaches the function of
\* the page once.
C11_StartIdempotent ==
  /\ isIntercepting =>
       /\ consoleFns = Wrapper
       /\ originalError = Native.error
       /\ originalWarn = Native.warn
  /\ lastCall.level # "none" /\ lastCall.wrapped =>
       /\ lastCall.appended = (IF lastCall.self THEN 0 ELSE 1)
       /\ lastCall.original = 1
       /\ ~lastCall.overflow

\* a console call after two start calls in a row appended one entry
C11_Witness ==
  /\ lastCall.level = "error"
  /\ lastCall.starts = MaxStarts
  /\ lastCall.wrapped
  /\ ~lastCall.self
  /\ lastCall.appended = 1
  /\ lastCall.original = 1
  /\ Len(consoleBuffer) = 1

\* C12: when capture is stopped console.error and console.warn are the
\* functions of the page again, and a console call appends nothing.
C12_StopRestores ==
  /\ ~isIntercepting => consoleFns = Native
  /\ lastCall.level # "none" /\ ~lastCall.wrapped =>
       /\ lastCall.appended = 0
       /\ lastCall.original = 1

\* capture was started, filled the buffer, was stopped, and a later call
\* left the buffer alone
C12_Witness ==
  /\ originalError # NULL
  /\ ~isIntercepting
  /\ consoleFns = Native
  /\ lastCall.level = "warn"
  /\ ~lastCall.wrapped
  /\ ~lastCall.self
  /\ Len(consoleBuffer) = 2
  /\ consoleBuffer[2].level = "error"

NextRecent ==
  \/ startConsoleCapture
  \/ \E level \in Levels, self \in BOOLEAN : ConsoleCallUpTo(level, self, MaxRecentCalls)
  \/ \E maxAge \in MaxAges : GetRecent(maxAge)
  \/ \E i \in 1..MaxRecentCalls : MutateReturned(i)
  \/ Tick

\* a page that logs errors over time and a caller that reads them
SpecRecent == Init /\ [][NextRecent]_vars

\* the entries of a sequence
Range(seq) == {seq[i] : i \in 1..Len(seq)}

\* `result` holds, oldest first, the buffered entries newer than now - maxAge
RecentOf(result, maxAge) ==
  LET vals == [i \in 1..Len(result) |-> result[i].value] IN
  /\ \A e \in Range(consoleBuffer) : (e \in Range(vals)) <=> (now - e.timestamp < maxAge)
  /\ Range(vals) \subseteq Range(consoleBuffer)
  /\ \A i, j \in 1..Len(vals) : i < j => vals[i].n < vals[j].n

\* C13: getRecentConsoleEntries(maxAge) returns, in insertion order, exactly
\* the buffered entries with timestamp newer than now - maxAge; the call
\* leaves the buffer as it is, and so does an assignment to a returned entry.
C13_RecentCopies ==
  [][/\ \A maxAge \in MaxAges :
          GetRecent(maxAge) => RecentOf(recent', maxAge) /\ consoleBuffer' = consoleBuffer
     /\ \A i \in 1..MaxRecentCalls :
          MutateReturned(i) => consoleBuffer' = consoleBuffer]_vars

\* the caller edited the one entry it was given, the newer of two buffered
C13_Witness ==
  /\ Len(recent) = 1
  /\ recent[1].value.level = "edited"
  /\ Len(consoleBuffer) = 2
  /\ consoleBuffer[1].timestamp < consoleBuffer[2].timestamp
  /\ consoleBuffer[2].n = recent[1].value.n
  /\ consoleBuffer[2].level = "error"

\* a page in which each library has no store, a store in a bad state or a
\* working store, one of them holding the state under study
InitState ==
  /\ InitDelivery /\ serverUp
  /\ InitConsole
  /\ win \in [stores : [AdapterNames -> {"absent", "bad", "good"}],
              holder : AdapterNames, S : States]
  /\ appState = [kind |-> "none", v |-> JUndefined]
  /\ tree = [fibers |-> <<>>, back |-> 0, dom |-> <<"">>]
  /\ path = IdlePath
  /\ element = PlainElement
  /\ snapshot = NoSnapshot
  /\ InitPeer

NextState ==
  \E custom \in CustomGetters, exclude \in ExcludeOptions : captureAppState(custom, exclude)

\* state capture on every such page
SpecState == InitState /\ [][NextState]_vars

\* the entry of object v under key k is present
HasKey(v, k) == \E i \in 1..Len(v.items) : v.items[i].k = k

RECURSIVE IsClean(_)
IsClean(v) ==
  \A i \in 1..Len(v.items) :
    LET e == v.items[i] IN
    /\ v.t = "object" => e.k \notin NOISE_KEYS
    /\ ~(e.v.t \in {"object", "array"} /\ Len(e.v.items) = 0)
    /\ ~(e.v.t = "string" /\ e.v.s = "")
    /\ IsClean(e.v)

\* C15: the state captured from an adapter holds, at every nesting level
\* through objects and arrays, no noise key and no empty object, empty
\* array or empty string.
C15_CleanedState ==
  appState.kind = "value" =>
    \A i \in 1..Len(appState.v.items) :
      appState.v.items[i].k \in AdapterNames => IsClean(appState.v.items[i].v)

\* a state with a noise key and an empty value two levels down was captured
\* without them
C15_Witness ==
  /\ appState.kind = "value"
  /\ win.holder = "redux"
  /\ win.stores["redux"] = "good"
  /\ win.S = JObject(<<Entry("user",
                JArray(<<Item(JObject(<<Entry("user", JString("s")),
                                        Entry("persist", JString("s"))>>))>>))>>)
  /\ HasKey(appState.v, "redux")
  /\ IsClean(appState.v)

\* two items that come from the same chain of the element: its owners (the
\* fibers) or its DOM ancestors (the data-component attributes)
SameChain(a, b) == (a.source = "attribute") = (b.source = "attribute")

\* C16: the items returned by extractComponentPath are ordered root-first:
\* of two items on the same chain of the element the one of the ancestor
\* (the farther one) comes first, and the last item is the nearest of its chain
C16_RootFirst ==
  path.pc = "done" =>
    LET r == path.result
    IN /\ \A i, j \in 1..Len(r) :
            (i < j /\ SameChain(r[i], r[j])) => r[i].at > r[j].at
       /\ \A i \in 1..Len(r) :
            SameChain(r[i], r[Len(r)]) => r[Len(r)].at <= r[i].at

IsNoise(c) == c.name \in FrameworkNames

\* C17: the result holds no item with a framework name unless every
\* collected item has one; then, and only then, it is the last min(5, n)
\* collected items as they are; an item with a framework name carries
\* neither props nor state
C17_NoiseFiltered ==
  path.pc = "done" =>
    LET all == path.allComponents
        r == path.result
        n == Len(all)
        m == IF n < FALLBACK_ITEMS THEN n ELSE FALLBACK_ITEMS
    IN /\ (\E i \in 1..n : ~IsNoise(all[i])) =>
            /\ \A k \in 1..Len(r) : ~IsNoise(r[k])
            /\ \A i \in 1..n : ~IsNoise(all[i]) => \E k \in 1..Len(r) : r[k] = all[i]
       /\ (\A i \in 1..n : IsNoise(all[i])) =>
            /\ Len(r) = m
            /\ \A k \in 1..m : r[k] = all[n - m + k]
       /\ \A i \in 1..n : IsNoise(all[i]) => (~all[i].props /\ all[i].state = 0)

\* more than five items were collected, all of them framework components
C17_Witness ==
  /\ path.pc = "done"
  /\ Len(path.allComponents) > FALLBACK_ITEMS
  /\ \A i \in 1..Len(path.allComponents) : IsNoise(path.allComponents[i])
  /\ Len(path.result) = FALLBACK_ITEMS

\* C18: the walks of extractComponentPath are bounded: once the walk over the
\* owners has begun the call returns, whatever the chains of the element
C18_WalkTerminates == (path.pc = "fibers") ~> (path.pc = "done")

\* an element of one of the trees is selected
InitPath ==
  /\ InitDelivery /\ serverUp
  /\ InitConsole
  /\ win = [stores |-> [a \in AdapterNames |-> "absent"], holder |-> "zustand",
            S |-> JObject(<<>>)]
  /\ appState = [kind |-> "none", v |-> JUndefined]
  /\ tree \in Trees
  /\ path = IdlePath
  /\ element = PlainElement
  /\ snapshot = NoSnapshot
  /\ InitPeer

NextPath == StartPath \/ FiberStep \/ FibersDone \/ DomStep \/ FinishPath

\* the component path of every such element
SpecPath == InitPath /\ [][NextPath]_vars

\* the extraction runs to its end unless it loops
SpecPathLive == InitPath /\ [][NextPath]_vars /\ WF_vars(NextPath)

\* no string field of a snapshot is longer than the longest limit the
\* extraction applies
LongestLimit == INNER_HTML_LIMIT + 3

\* C19: extracting a snapshot never throws: a sub-extraction that fails
\* yields the default of its field and the other fields are still extracted
C19_SnapshotNeverThrows ==
  snapshot.by # "none" =>
    /\ snapshot.kind = "value"
    /\ \A f \in Subs :
         /\ f \in element.throws => snapshot.fields[f] \in {"default", "absent"}
         /\ f \notin element.throws => snapshot.fields[f] \in {"value", "absent"}

\* C20: every string field of a snapshot has a maximum length whatever the
\* size of the content of the element
C20_StringsBounded ==
  (snapshot.by = "extractElementInfo" /\ snapshot.kind = "value") =>
    /\ snapshot.len.textContent <= TEXT_LIMIT + 3
    /\ snapshot.len.attribute <= ATTRIBUTE_LIMIT + 3
    /\ snapshot.len.innerHTML <= INNER_HTML_LIMIT + 3
    /\ snapshot.len.tagName <= LongestLimit
    /\ snapshot.len.id <= LongestLimit
    /\ snapshot.len.className <= LongestLimit
    /\ snapshot.len.selector <= LongestLimit
    /\ snapshot.len.previousSibling <= LongestLimit

\* a snapshot of one of the elements is taken
InitElement ==
  /\ InitDelivery /\ serverUp
  /\ InitConsole
  /\ win = [stores |-> [a \in AdapterNames |-> "absent"], holder |-> "zustand",
            S |-> JObject(<<>>)]
  /\ appState = [kind |-> "none", v |-> JUndefined]
  /\ tree = [fibers |-> <<>>, back |-> 0, dom |-> <<"">>]
  /\ path = IdlePath
  /\ element \in Elements
  /\ snapshot = NoSnapshot
  /\ InitPeer

NextElement == extractElementInfo \/ extractElementData

SpecElement == InitElement /\ [][NextElement]_vars

\* C22: when captureContext has resolved with a report, the lastReportMethod
\* its caller reads, and the method the toast shows, is the method that
\* report was delivered by
C22_CallerReadsOwnMethod ==
  \A p \in Captures :
    (cap[p].pc = "done" /\ cap[p].ret = "report") =>
      /\ cap[p].read = cap[p].method
      /\ cap[p].toast = cap[p].method

\* one caller that captures again and again, the component rendering in between
NextCaller ==
  \/ \E force \in BOOLEAN : StartCapture("a", force)
  \/ CaptureStep("a")
  \/ Render("a")
  \/ ServerToggle
  \/ Tick

SpecCaller == Init /\ [][NextCaller]_vars

\* captures that may overlap, the cache being left to expire
NextTtl ==
  \/ \E p \in Captures, force \in BOOLEAN : StartCapture(p, force)
  \/ \E p \in Captures : CaptureStep(p)
  \/ ServerToggle
  \/ Tick

SpecTtl == Init /\ [][NextTtl]_vars

\* in this step logContextReport of p makes its availability check
ReportCheck(p) ==
  /\ cap[p].pc \in {"idle", "done"}
  /\ cap'[p].id # cap[p].id
  /\ ~cap'[p].force

\* in this step logContextScreenshot of p makes its availability check
ShotCheck(p) ==
  /\ cap[p].pc = "shot"
  /\ cap'[p].pc # "shot"
  /\ cap'[p].shot # "captureFailed"
  /\ ~cap[p].force

\* the check p makes in this step sends GET /health
Probes(p) == AwaitsHealth(cap'[p])

\* call q has probed and its probe has settled
ProbeDone(q) == cap[q].probed /\ cap[q].avail \in {"yes", "no"}

\* C23 as stated: a check made less than SERVER_CHECK_INTERVAL after a probe
\* that produced a result sends no request, and a check made that long or
\* longer after the probe of the result at hand sends GET /health
C23_ResultReusedForInterval ==
  [][\A p \in Captures :
       ReportCheck(p) \/ ShotCheck(p) =>
         /\ \A q \in Captures \ {p} :
              ProbeDone(q) /\ now - cap[q].t0 < SERVER_CHECK_INTERVAL => ~Probes(p)
         /\ (cachedServerAvailable # NULL
               /\ now - lastServerCheck >= SERVER_CHECK_INTERVAL) => Probes(p)]_vars

\* C23 amended: the result in the cache, which is the one of the probe that
\* settled last, is reused by every check made less than
\* SERVER_CHECK_INTERVAL after that probe began, and a check made that long
\* or longer after it, or with an empty cache, sends GET /health
C23_CachedResultReused ==
  [][\A p \in Captures :
       /\ ReportCheck(p) \/ ShotCheck(p) =>
            (Probes(p) <=> (cachedServerAvailable = NULL
                              \/ now - lastServerCheck >= SERVER_CHECK_INTERVAL))
       /\ (AwaitsHealth(cap[p]) /\ ~AwaitsHealth(cap'[p])) =>
            /\ lastServerCheck' = cap[p].t0
            /\ cachedServerAvailable' \in {"true", "false"}]_vars

\* a check made exactly SERVER_CHECK_INTERVAL after the probe whose result
\* is in the cache has sent GET /health
C23_Witness ==
  \E p \in Captures :
    /\ cap[p].pc = "health"
    /\ cap[p].t0 = SERVER_CHECK_INTERVAL
    /\ cachedServerAvailable # NULL
    /\ lastServerCheck = 0

\* C24: one logContextReport call sends at most one GET /health and at most
\* one POST /report; after a probe that failed it sends nothing more, and
\* after a POST that failed it sends nothing more, before it falls back
C24_OneShot ==
  \A p \in Captures :
    LET c == cap[p] IN
    /\ c.gets <= 1
    /\ c.posts <= 1
    /\ c.avail = "no" => c.posts = 0 /\ ~InReportLog(c)
    /\ c.sent = "failed" => ~InReportLog(c) /\ c.method = "console"

\* the one POST of a call was refused after its one probe had succeeded,
\* and the call fell back to the console
C24_Witness ==
  \E p \in Captures :
    /\ JustLogged(p)
    /\ cap[p].gets = 1
    /\ cap[p].posts = 1
    /\ cap[p].sent = "failed"
    /\ cap[p].method = "console"

\* the server while reports and screenshots arrive, time passes and the
\* process is stopped
NextServer ==
  \/ \E report \in ServerReports, valid \in BOOLEAN : PostReport(report, valid)
  \/ \E id \in ServerIds, valid, disk \in BOOLEAN : PostScreenshot(id, valid, disk)
  \/ \E timer \in timers : TimerFires(timer)
  \/ Sigint
  \/ Exit
  \/ Tick

SpecServer == Init /\ [][NextServer]_vars

\* in this step a screenshot for report id, which the server had accepted
\* before, is stored and answered 200
ShotStored(id) ==
  /\ answered.report[id] = 200
  /\ answered.screenshot[id] = 0
  /\ answered'.screenshot[id] = 200

\* the markdown writes made for report id
WritesOf(id) == SelectSeq(mdWrites, LAMBDA w : w.id = id)

\* C25 as stated: when a screenshot for report R reaches the server after R
\* was accepted, the markdown written for R references the screenshot,
\* whatever the delay
C25_ScreenshotInReport ==
  [][\A id \in ServerIds :
       ShotStored(id) =>
         /\ \E i \in 1..Len(mdWrites') : mdWrites'[i].id = id
         /\ \A i \in 1..Len(mdWrites') : mdWrites'[i].id = id => mdWrites'[i].shot # {}]_vars

\* C25 amended: a screenshot for R that reaches the server while R is still
\* pending is saved under R's filename and R's markdown is written then,
\* with a reference to it; one that comes after R's timer has fired is
\* saved as an orphan and no markdown is written
C25_ScreenshotWhilePending ==
  [][\A id \in ServerIds :
       ShotStored(id) =>
         IF \E e \in pendingReports : e.id = id
         THEN LET e == CHOOSE x \in pendingReports : x.id = id IN
              /\ [path |-> e.filename, id |-> id, shot |-> {e.filename}] \in reportsDir'
              /\ [path |-> e.filename] \in screenshotsDir'
              /\ Len(mdWrites') = Len(mdWrites) + 1
              /\ ~\E x \in pendingReports' : x.id = id
         ELSE /\ reportsDir' = reportsDir
              /\ mdWrites' = mdWrites
              /\ [path |-> [orphan |-> now]] \in screenshotsDir']_vars

\* the screenshot of an accepted report arrived later than the report but
\* before its timer, and the report's markdown references it
C25_Witness ==
  \E id \in ServerIds :
    /\ answered.report[id] = 200
    /\ answered.screenshot[id] = 200
    /\ \E f \in reportsDir : f.id = id /\ f.shot # {}
    /\ \E t \in timers : t.id = id /\ now >= t.due

\* C26: every report answered 200 is written as a markdown file exactly
\* once: never twice, and once by the time the process has exited
C26_AcceptedWrittenOnce ==
  \A id \in ServerIds :
    /\ Len(WritesOf(id)) <= 1
    /\ (process = "exited" /\ answered.report[id] = 200) => Len(WritesOf(id)) = 1

\* C27: two distinct reports are never written to the same file path
C27_DistinctPaths ==
  \A i, j \in 1..Len(mdWrites) :
    mdWrites[i].path = mdWrites[j].path => mdWrites[i].id = mdWrites[j].id

\* C21: two calls of generateReportId never return the same id
C21_IdsUnique ==
  \A i, j \in 1..Len(issued) : i # j => issued[i] # issued[j]

\* report ids generated while time passes
NextIds == generateReportId \/ Tick

SpecIds == Init /\ [][NextIds]_vars

NextStorage ==
  \/ \E h \in Handlers, valid \in BOOLEAN : saveReportRead(h, valid)
  \/ \E h \in Handlers, id \in 1..MaxMessages : deleteReportRead(h, id)
  \/ \E h \in Handlers, ok \in BOOLEAN : StorageSet(h, ok)
  \/ \E h \in Handlers : clearAllReports(h)

SpecStorage == Init /\ [][NextStorage]_vars

\* the message whose handler finishes in this step
Finishes(h, action) ==
  /\ messages'[h] # messages[h]
  /\ messages'[h].pc = "idle"
  /\ messages'[h].action = action
  /\ messages'[h].response = "success"

\* C28: no lost updates in the extension's report storage: a saveReport that
\* answers success leaves its report in the stored list, and a report leaves
\* the stored list only in a step that finishes a deleteReport of its own id
\* or a clearAllReports, or in a save that trimmed the list to MAX_REPORTS.
C28_NoLostUpdates ==
  [][/\ \A h \in Handlers :
          Finishes(h, "saveReport") => messages'[h].id \in Range(stored')
     /\ \A id \in Range(stored) \ Range(stored') :
          \/ \E h \in Handlers : Finishes(h, "deleteReport") /\ messages'[h].id = id
          \/ \E h \in Handlers : Finishes(h, "clearAllReports")
          \/ \E h \in Handlers : Finishes(h, "saveReport")
                                   /\ Len(stored') = MAX_REPORTS]_vars

\* the component is rendered with another reporter.serverUrl (or
\* isServerAvailable is next called with another one); a running call keeps
\* the URL it was started with
Configure(p, url) ==
  /\ url # serverUrl[p]
  /\ IF p = "check" THEN chk.pc = "idle" ELSE cap[p].pc \in {"idle", "done"}
  /\ serverUrl' = [serverUrl EXCEPT ![p] = url]
  /\ UNCHANGED <<deliveryVars, consoleVars, extractVars, idVars, callerVars,
                 serverVars, storageVars>>

NextUrl ==
  \/ StartCapture("a", FALSE)
  \/ CaptureStep("a")
  \/ IsServerAvailable
  \/ \E o \in Outcomes : CheckResponse(o)
  \/ CheckAbort
  \/ \E p \in {"a", "check"}, url \in Urls : Configure(p, url)
  \/ ServerToggle
  \/ Tick

SpecUrl == Init /\ [][NextUrl]_vars

\* the call of p that starts in this step takes the cached availability
UsesCache(p) ==
  /\ cap'[p].id = nextId
  /\ nextId' = nextId + 1
  /\ cap'[p].hit \in {"hitTrue", "hitFalse"}

\* C29: the availability a call uses to decide the delivery to its serverUrl
\* comes from a probe of that serverUrl: when logContextReport takes the
\* cached result, the cached result was obtained for the URL of this call.
C29_CacheOfSameUrl ==
  [][\A p \in Captures : UsesCache(p) => probedUrl = serverUrl[p]]_vars

\* a value stored under one of `keys` is somewhere in v, through objects
\* and arrays
RECURSIVE Leaks(_, _)
Leaks(v, keys) ==
  \E i \in 1..Len(v.items) :
    LET e == v.items[i] IN
    \/ v.t = "object" /\ e.k \in keys /\ e.v # JString("[REDACTED]")
    \/ Leaks(e.v, keys)

\* C30: no value stored under a key of excludeStateKeys is in the captured
\* app state, at any depth of an adapter's state, inside arrays and in the
\* custom state: whatever a capture with excluded keys returns holds nothing
\* but the redaction mark under those keys.
C30_ExcludedNeverCaptured ==
  [][\A custom \in CustomGetters, exclude \in ExcludeOptions :
       (exclude.given /\ appState' = CapturedAppState(custom, exclude)
                      /\ appState'.kind = "value")
         => ~Leaks(appState'.v, exclude.keys)]_vars

====
